---- MODULE Spec2Model ----
(***************************************************************************)
(* DensePoseChartLoss (projects/DensePose-Teacher/densepose/modeling/      *)
(* losses/chart.py): the chart-based DensePose training loss with the      *)
(* pseudo-label (teacher/student) branch and the optional correction head. *)
(*                                                                         *)
(* Numbers are fixed point:                                                *)
(*   - logits are integers (unit 1);                                       *)
(*   - cross-entropies are in 1/1000 nat (LnM, ExpM);                      *)
(*   - U/V coordinates, confidences and the threshold are in tenths;       *)
(*   - smooth-L1 values are in units of 1/200 (0.5 * 0.1^2), which makes   *)
(*     the piecewise definition exact on tenths;                           *)
(*   - a mean is the floor of sum / count; the mean of nothing is NaN.     *)
(* A loss value is a record [nan, v]: NaN is kept apart from the numbers.  *)
(*                                                                         *)
(* The collaborators that are not part of chart.py (annotation packing,    *)
(* BilinearInterpolationHelper, resample_data, the predictor) are not      *)
(* modelled: what they return (the packed annotations or None, j_valid,    *)
(* the values extracted at the annotated points, the resampled maps at     *)
(* each heatmap position) is the input of the call.                        *)
(***************************************************************************)
EXTENDS Integers, Sequences, FiniteSets, TLC

\* build, cfg, args: the torch build, the configuration and the inputs of the
\* call; self: the loss object; ret, invoked, pc: the outcome of the call, the
\* sub-losses it went through, and where the caller stands; first: the inputs
\* and the outcome of the object's first call (kept for comparison only)
VARIABLES build, cfg, self, args, ret, invoked, pc, first

vars == <<build, cfg, self, args, ret, invoked, pc, first>>

----------------------------------------------------------------------------
(* Fixed-point arithmetic *)

Abs(x) == IF x < 0 THEN -x ELSE x

RECURSIVE SumSeq(_)
SumSeq(s) == IF s = <<>> THEN 0 ELSE Head(s) + SumSeq(Tail(s))

Range(s) == {s[i] : i \in 1..Len(s)}

\* A loss value: a number, or NaN.
Val(x) == [nan |-> FALSE, v |-> x]
NaN == [nan |-> TRUE, v |-> 0]

\* tensor * weight
Times(x, w) == IF x.nan THEN NaN ELSE Val(x.v * w)

\* Tensor.mean(): NaN on an empty tensor
Mean(s) == IF Len(s) = 0 THEN NaN ELSE Val(SumSeq(s) \div Len(s))

\* 1000 * e^k for the logit differences the model uses
ExpM(k) ==
    CASE k <= -6 -> 2
      [] k = -5 -> 7
      [] k = -4 -> 18
      [] k = -3 -> 50
      [] k = -2 -> 135
      [] k = -1 -> 368
      [] k = 0 -> 1000
      [] k = 1 -> 2718
      [] k = 2 -> 7389
      [] k = 3 -> 20086
      [] k = 4 -> 54598
      [] k = 5 -> 148413
      [] OTHER -> 403429

\* 1000 * ln(x / 1000) for x >= 1000: halve down to [1000, 2000), then
\* ln m = 2 atanh((m - 1) / (m + 1)) by its series to the fifth power.
RECURSIVE LnM(_)
LnM(x) ==
    IF x >= 2000 THEN 693 + LnM(x \div 2)
    ELSE LET t == ((x - 1000) * 1000) \div (x + 1000)
             t3 == (t * t * t) \div 1000000
             t5 == (t3 * t * t) \div 1000000
         IN  2 * t + (2 * t3) \div 3 + (2 * t5) \div 5

\* F.cross_entropy(logits, target, reduction='none') for one row:
\* log(sum_c exp(z_c)) - z_target, in 1/1000 nat.  Labels are 0-based.
CrossEntropy(z, target) ==
    LnM(SumSeq([c \in 1..Len(z) |-> ExpM(z[c] - z[target + 1])]))

\* F.smooth_l1_loss (beta = 1) for one element: 0.5 d^2 if |d| < 1 else
\* |d| - 0.5; d in tenths, the value in units of 1/200.
SmoothL1(est, gt) ==
    LET d == Abs(est - gt)
    IN  IF d < 10 THEN d * d ELSE 20 * d - 100

\* Tensor.clamp(lo, hi)
Clamp(x, lo, hi) == IF x < lo THEN lo ELSE IF x > hi THEN hi ELSE x

\* {**a, **b}
Merge(a, b) ==
    [k \in (DOMAIN a) \cup (DOMAIN b) |-> IF k \in DOMAIN b THEN b[k] ELSE a[k]]

EmptyMap == [k \in {} |-> Val(0)]

----------------------------------------------------------------------------
(* Outcomes of a call: a LossMap, or an exception *)

Ok(m) == [kind |-> "map", m |-> m, err |-> ""]
Raise(e) == [kind |-> "raise", m |-> EmptyMap, err |-> e]
NoRet == [kind |-> "none", m |-> EmptyMap, err |-> ""]

\* torch broadcasting of two 1-d shapes
Broadcastable(a, b) == a = b \/ a = 1 \/ b = 1
BcLen(a, b) == IF a >= b THEN a ELSE b
Bc(x, j) == IF Len(x) = 1 THEN x[1] ELSE x[j]

\* bool -> {0, 1}
B2I(b) == IF b THEN 1 ELSE 0

MaxOf(row) == CHOOSE x \in Range(row) : \A y \in Range(row) : y <= x

\* Tensor.argmax(dim=1) for one row: the first maximal index (0-based)
Argmax(row) ==
    (CHOOSE c \in 1..Len(row) :
        /\ row[c] = MaxOf(row)
        /\ \A d \in 1..(c - 1) : row[d] < row[c]) - 1

\* torch.argsort(row, descending=True) for one row, 0-based channels.  The
\* sort is not stable: the order of equal elements is the build's
\* (ties = "low": the lower channel first, "high": the higher one first).
RECURSIVE ArgsortDesc(_, _, _)
ArgsortDesc(row, left, ties) ==
    IF left = {} THEN <<>>
    ELSE LET best == CHOOSE c \in left : \A d \in left :
                        \/ row[d + 1] < row[c + 1]
                        \/ /\ row[d + 1] = row[c + 1]
                           /\ IF ties = "low" THEN c <= d ELSE c >= d
         IN  <<best>> \o ArgsortDesc(row, left \ {best}, ties)

\* the indices of s (in order) whose element satisfies the boolean vector
RECURSIVE WhereFrom(_, _)
WhereFrom(flags, i) ==
    IF i > Len(flags) THEN <<>>
    ELSE (IF flags[i] THEN <<i>> ELSE <<>>) \o WhereFrom(flags, i + 1)

Where(flags) == WhereFrom(flags, 1)

----------------------------------------------------------------------------
(* The collaborators of chart.py, from their contract *)

\* MaskOrSegmentationLoss.__call__: the coarse segmentation loss, a
\* non-negative scalar the packed annotations determine.
SegmLoss(packed) == Val(packed.coarse_segm_loss)

\* MaskOrSegmentationLoss.fake_value: zero, graph-connected.
SegmLossFakeValue == Val(0)

----------------------------------------------------------------------------
(* DensePoseChartLoss *)

NoObject == [constructed |-> FALSE]

\* __init__: the fields are read from the configuration as they are.
InitObject(c) ==
    [constructed |-> TRUE,
     w_points |-> c.POINT_REGRESSION_WEIGHTS,
     w_part |-> c.PART_WEIGHTS,
     w_segm |-> c.INDEX_WEIGHTS,
     w_p_segm |-> c.SEMI_SEGM_WEIGHTS,
     w_p_points |-> c.SEMI_POINTS_WEIGHTS,
     pseudo_threshold |-> c.SEMI_THRESHOLD,
     n_channels |-> c.NUM_PATCHES + 1,
     loss_name |-> c.SEMI_LOSS_NAME,
     uv_loss_channels |-> c.SEMI_UV_LOSS_CHANNELS,
     w_crt_points |-> c.COR_POINTS_WEIGHTS,
     w_crt_segm |-> c.COR_SEGM_WEIGHTS]

\* x.sum() * 0 of a finite tensor
FakeZero == Val(0)

produce_fake_densepose_losses_uv(corrections) ==
    LET losses == [k \in {"loss_densepose_U", "loss_densepose_V"} |-> FakeZero]
    IN  IF corrections
        THEN Merge(losses,
                   [k \in {"loss_correction_U", "loss_correction_V"} |-> FakeZero])
        ELSE losses

produce_fake_densepose_losses_unsup ==
    [k \in {"loss_unsup_segm", "loss_u_p", "loss_v_p"} |-> FakeZero]

produce_fake_densepose_losses_segm(corrections) ==
    LET losses == [k \in {"loss_densepose_I", "loss_densepose_S"} |->
                     IF k = "loss_densepose_I" THEN FakeZero ELSE SegmLossFakeValue]
    IN  IF corrections
        THEN Merge(losses, [k \in {"loss_correction_I"} |-> FakeZero])
        ELSE losses

produce_fake_densepose_losses(corrections) ==
    Merge(Merge(produce_fake_densepose_losses_uv(corrections),
                produce_fake_densepose_losses_segm(corrections)),
          produce_fake_densepose_losses_unsup)

\* JValidFg without the foreground test
JValidFg_AnyLabel(packed) ==
    [i \in 1..Len(packed.pts) |-> packed.pts[i].j_valid]

\* j_valid_fg = interpolator.j_valid * (fine_segm_labels_gt > 0)
JValidFg(packed) ==
    [i \in 1..Len(packed.pts) |->
        packed.pts[i].j_valid /\ packed.pts[i].fine_segm_labels_gt > 0]

\* JValid with the foreground filter of the regression losses
JValid_ForegroundOnly(packed) ==
    [i \in 1..Len(packed.pts) |->
        packed.pts[i].j_valid /\ packed.pts[i].fine_segm_labels_gt > 0]

\* interpolator.j_valid
JValid(packed) == [i \in 1..Len(packed.pts) |-> packed.pts[i].j_valid]

\* SmoothL1Sum with reduction="mean"
SmoothL1Sum_Mean(pts, sel, est, gt) ==
    Mean([r \in 1..Len(sel) |-> SmoothL1(est[sel[r]], gt[sel[r]])])

\* F.smooth_l1_loss(est, gt, reduction="sum") over the selected points
SmoothL1Sum(pts, sel, est, gt) ==
    Val(SumSeq([r \in 1..Len(sel) |-> SmoothL1(est[sel[r]], gt[sel[r]])]))

produce_densepose_losses_uv(s, packed, j_valid_fg, corrections) ==
    LET pts == packed.pts
        sel == Where(j_valid_fg)
        all == 1..Len(pts)
        u_gt == [i \in all |-> pts[i].u_gt]
        v_gt == [i \in all |-> pts[i].v_gt]
        u_est == [i \in all |-> pts[i].u_est]
        v_est == [i \in all |-> pts[i].v_est]
        u_crt_est == [i \in all |-> pts[i].u_crt_est]
        v_crt_est == [i \in all |-> pts[i].v_crt_est]
        u_crt_gt == [i \in all |-> u_gt[i] - Clamp(u_est[i], 0, 10)]
        v_crt_gt == [i \in all |-> v_gt[i] - Clamp(v_est[i], 0, 10)]
        loss ==
            [k \in {"loss_densepose_U", "loss_densepose_V"} |->
                IF k = "loss_densepose_U"
                THEN Times(SmoothL1Sum(pts, sel, u_est, u_gt), s.w_points)
                ELSE Times(SmoothL1Sum(pts, sel, v_est, v_gt), s.w_points)]
        crt ==
            [k \in {"loss_correction_U", "loss_correction_V"} |->
                IF k = "loss_correction_U"
                THEN Times(SmoothL1Sum(pts, sel, u_crt_est, u_crt_gt), s.w_crt_points)
                ELSE Times(SmoothL1Sum(pts, sel, v_crt_est, v_crt_gt), s.w_crt_points)]
    IN  IF corrections THEN Merge(loss, crt) ELSE loss

\* the correction target of one point: the abstain class n_channels, or
\* the ground truth where the base prediction's argmax misses it
CorrectionTarget(s, fine_segm_est, fine_segm_gt) ==
    IF Argmax(fine_segm_est) # fine_segm_gt THEN fine_segm_gt ELSE s.n_channels

\* CorrectionFactor doubling crt_loss[index] instead of crt_loss[~index]
CorrectionFactor_Swapped(fine_segm_est, fine_segm_gt) ==
    IF Argmax(fine_segm_est) # fine_segm_gt THEN 2 ELSE 1

\* the factor of one point's correction cross-entropy (crt_loss[~index] * 2)
CorrectionFactor(fine_segm_est, fine_segm_gt) ==
    IF Argmax(fine_segm_est) # fine_segm_gt THEN 1 ELSE 2

produce_densepose_losses_segm(s, packed, j_valid_fg, corrections) ==
    LET pts == packed.pts
        sel == Where(JValid(packed))
        ce == [r \in 1..Len(sel) |->
                 CrossEntropy(pts[sel[r]].fine_segm_est,
                              pts[sel[r]].fine_segm_labels_gt)]
        crt_loss ==
            [r \in 1..Len(sel) |->
                CrossEntropy(pts[sel[r]].fine_segm_crt_est,
                             CorrectionTarget(s, pts[sel[r]].fine_segm_est,
                                              pts[sel[r]].fine_segm_labels_gt))
                * CorrectionFactor(pts[sel[r]].fine_segm_est,
                                   pts[sel[r]].fine_segm_labels_gt)]
        loss ==
            [k \in {"loss_densepose_I", "loss_densepose_S"} |->
                IF k = "loss_densepose_I"
                THEN Times(Mean(ce), s.w_part)
                ELSE Times(SegmLoss(packed), s.w_segm)]
    IN  IF corrections
        THEN Merge(loss, [k \in {"loss_correction_I"} |->
                            Times(Mean(crt_loss), s.w_crt_segm)])
        ELSE loss


\* [pos_index]: the heatmap positions the resampled coarse ground truth
\* marks as foreground
PosRows(packed) ==
    LET flags == [i \in 1..Len(packed.pix) |-> packed.pix[i].pos]
        idx == Where(flags)
    IN  [r \in 1..Len(idx) |-> packed.pix[idx[r]]]

\* GateActive with `<= 1`
GateActive_AtOne(s) == s.pseudo_threshold <= 10

\* `if self.pseudo_threshold < 1`: whether the confidence gate is applied
GateActive(s) == s.pseudo_threshold < 10

\* ConfMask with a strict comparison
ConfMask_Strict(s, segm_conf) == segm_conf > s.pseudo_threshold

\* mask = segm_conf >= self.pseudo_threshold, for one position
ConfMask(s, segm_conf) == segm_conf >= s.pseudo_threshold

\* pred_index = argsort(pseudo, descending)[:, :uv_loss_channels], one row
PredIndex(s, b, row) ==
    SubSeq(ArgsortDesc(row, 0..(Len(row) - 1), b.argsort_ties),
           1, s.uv_loss_channels)

\* log(clamp(one_hot, 1e-4, 1.0)) of one entry, in 1/1000 nat
LogOneHotM(hot) == IF hot THEN 0 ELSE -9210

\* ReverseCE without the factor -1
ReverseCE_Unsigned(est, label) ==
    SumSeq([c \in 1..Len(est) |-> est[c] * LogOneHotM(c = label + 1)])

\* the reverse cross-entropy of one row: sum_c -est_c * log(label_one_hot_c)
ReverseCE(est, label) ==
    SumSeq([c \in 1..Len(est) |-> (-1) * est[c] * LogOneHotM(c = label + 1)])

\* mask at the products of lines 476-479 and 497: None (line 423) unless the
\* gate was applied, else one entry per pos_index position (line 462)
MaskEntries(s, packed) ==
    [defined |-> GateActive(s), entries |-> Len(PosRows(packed))]

\* the rows of est, and of the per-point loss of the segmentation term,
\* after est = est[mask] (lines 443, 466, 470)
RetainedPoints(s, packed) ==
    LET rows == PosRows(packed)
        mask == [j \in 1..Len(rows) |-> ConfMask(s, MaxOf(rows[j].fine_segm_p))]
    IN  IF GateActive(s) THEN Len(Where(mask)) ELSE Len(rows)

\* the entries of the U and V loss vectors: uv_loss_channels slices of the
\* retained points, concatenated (lines 489-495)
UVEntries(s, packed) == s.uv_loss_channels * RetainedPoints(s, packed)

\* The fine_segm_p iteration after the gate: the rows kept are rows[keep[r]],
\* mask has one entry per row of rows (it is None when the gate is off).
PseudoSegmLoss(s, b, rows, mask, keep, pred_index) ==
    LET n == Len(rows)
        m == Len(keep)
        loss == [r \in 1..m |->
                   CrossEntropy(rows[keep[r]].fine_segm, pred_index[r][1])]
        rce_rows == [r \in 1..m |->
                       ReverseCE(rows[keep[r]].fine_segm, pred_index[r][1])]
        \* torch.mean(rce_loss * mask)
        rce_loss == SumSeq([j \in 1..n |-> Bc(rce_rows, j) * B2I(mask[j])]) \div n
        \* loss * (1 - mask) + rce_loss
        sce_loss == [j \in 1..n |-> Bc(loss, j) * (1 - B2I(mask[j])) + rce_loss]
        \* (loss * weights).sum(), weights = mask / mask.sum()
        weighted == SumSeq([j \in 1..n |-> sce_loss[j] * B2I(mask[j])]) \div m
    IN  IF s.loss_name = "sce"
        THEN IF ~GateActive(s)
             THEN Raise("TypeError: Tensor * None")
             ELSE IF ~Broadcastable(m, n)
             THEN Raise("RuntimeError: size mismatch")
             ELSE IF b.bool_sub = "error"
             THEN Raise("RuntimeError: subtraction with a bool tensor")
             ELSE Ok([k \in {"loss_unsup_segm"} |-> Times(Val(weighted), s.w_p_segm)])
        ELSE IF s.loss_name = "ce"
        THEN Ok([k \in {"loss_unsup_segm"} |-> Times(Mean(loss), s.w_p_segm)])
        ELSE Ok(EmptyMap)

\* The u_p / v_p iteration (p_key is "u_p" or "v_p", e_key "u" or "v").
PseudoUVLoss(s, b, rows, mask, keep, pred_index, p_key, e_key) ==
    LET n == Len(rows)
        m == Len(keep)
        K == s.uv_loss_channels
        \* torch.cat([x[arange, pred_index[:, i]] for i in range(K)])
        pseudo == [e \in 1..(K * m) |->
                     LET i == ((e - 1) \div m) + 1
                         r == ((e - 1) % m) + 1
                     IN  rows[keep[r]][p_key][pred_index[r][i] + 1]]
        est == [e \in 1..(K * m) |->
                  LET i == ((e - 1) \div m) + 1
                      r == ((e - 1) % m) + 1
                  IN  rows[keep[r]][e_key][pred_index[r][i] + 1]]
        loss == [e \in 1..(K * m) |-> SmoothL1(est[e], pseudo[e])]
        \* (loss * weights).sum(), weights = mask / mask.sum()
        weighted ==
            SumSeq([j \in 1..BcLen(K * m, n) |-> Bc(loss, j) * B2I(Bc(mask, j))])
                \div Len(Where(mask))
        key == IF p_key = "u_p" THEN "loss_u_p" ELSE "loss_v_p"
    IN  IF s.loss_name = "sce"
        THEN IF ~GateActive(s)
             THEN Raise("TypeError: Tensor * None")
             ELSE IF ~Broadcastable(K * m, n)
             THEN Raise("RuntimeError: size mismatch")
             ELSE Ok([k \in {key} |-> Times(Val(weighted), s.w_p_points)])
        ELSE IF s.loss_name = "ce"
        THEN Ok([k \in {key} |-> Times(Mean(loss), s.w_p_points)])
        ELSE Ok(EmptyMap)

produce_densepose_losses_unsup(s, b, packed) ==
    LET rows == PosRows(packed)
        n == Len(rows)
        segm_conf == [j \in 1..n |-> MaxOf(rows[j].fine_segm_p)]
        mask == [j \in 1..n |-> ConfMask(s, segm_conf[j])]
        keep == IF GateActive(s) THEN Where(mask) ELSE [j \in 1..n |-> j]
        pred_index == [r \in 1..Len(keep) |-> PredIndex(s, b, rows[keep[r]].fine_segm_p)]
        fake == Ok(produce_fake_densepose_losses_unsup)
        segm == PseudoSegmLoss(s, b, rows, mask, keep, pred_index)
        u == PseudoUVLoss(s, b, rows, mask, keep, pred_index, "u_p", "u")
        v == PseudoUVLoss(s, b, rows, mask, keep, pred_index, "v_p", "v")
    IN  IF ~packed.has_fine_segm_p THEN fake
        ELSE IF GateActive(s) /\ Len(Where(mask)) <= 0 THEN fake
        ELSE IF segm.kind = "raise" THEN segm
        ELSE IF ~packed.has_u_p THEN fake
        ELSE IF u.kind = "raise" THEN u
        ELSE IF ~packed.has_v_p THEN fake
        ELSE IF v.kind = "raise" THEN v
        ELSE Ok(Merge(Merge(segm.m, u.m), v.m))

\* __call__: the outcome and the sub-computations it invoked, in order
CallResult(s, b, a) ==
    LET packed == a.packed_annotations
        corrections == a.corrections
        fake == Ok(produce_fake_densepose_losses(corrections))
        j_valid_fg == JValidFg(packed)
        losses_uv == produce_densepose_losses_uv(s, packed, j_valid_fg, corrections)
        losses_segm == produce_densepose_losses_segm(s, packed, j_valid_fg, corrections)
        losses_unsup == produce_densepose_losses_unsup(s, b, packed)
    IN  IF a.n_proposals = 0
        THEN [out |-> fake, steps |-> <<"fake">>]
        ELSE IF ~packed.present
        THEN [out |-> fake, steps |-> <<"pack", "fake">>]
        ELSE IF \A i \in 1..Len(j_valid_fg) : ~j_valid_fg[i]
        THEN [out |-> fake, steps |-> <<"pack", "interpolator", "fake">>]
        ELSE [out |-> IF losses_unsup.kind = "raise" THEN losses_unsup
                      ELSE Ok(Merge(Merge(losses_uv, losses_segm), losses_unsup.m)),
              steps |-> <<"pack", "interpolator", "uv", "segm", "unsup">>]


----------------------------------------------------------------------------
(* Inputs *)

\* the longest list of annotated points, and of heatmap positions
MaxPts == 2
MaxPix == 2

\* cfg.MODEL.ROI_DENSEPOSE_HEAD.NUM_PATCHES: two parts and the background
NumPatches == 2

SeqsUpTo(S, lo, hi) == UNION {[1..k -> S] : k \in lo..hi}

\* what the torch build decides: the order argsort gives equal elements, and
\* whether `1 - mask` on a bool mask is rejected or evaluated as 1 - {0, 1}
Builds == [argsort_ties : {"low", "high"}, bool_sub : {"error", "int"}]

UnitWeights ==
    [POINT_REGRESSION_WEIGHTS |-> 1, PART_WEIGHTS |-> 1, INDEX_WEIGHTS |-> 1,
     SEMI_SEGM_WEIGHTS |-> 1, SEMI_POINTS_WEIGHTS |-> 1,
     COR_POINTS_WEIGHTS |-> 1, COR_SEGM_WEIGHTS |-> 1]

MixedWeights ==
    [POINT_REGRESSION_WEIGHTS |-> 2, PART_WEIGHTS |-> 3, INDEX_WEIGHTS |-> 5,
     SEMI_SEGM_WEIGHTS |-> 3, SEMI_POINTS_WEIGHTS |-> 2,
     COR_POINTS_WEIGHTS |-> 3, COR_SEGM_WEIGHTS |-> 2]

Config(w, name, threshold, k) ==
    [POINT_REGRESSION_WEIGHTS |-> w.POINT_REGRESSION_WEIGHTS,
     PART_WEIGHTS |-> w.PART_WEIGHTS,
     INDEX_WEIGHTS |-> w.INDEX_WEIGHTS,
     SEMI_SEGM_WEIGHTS |-> w.SEMI_SEGM_WEIGHTS,
     SEMI_POINTS_WEIGHTS |-> w.SEMI_POINTS_WEIGHTS,
     COR_POINTS_WEIGHTS |-> w.COR_POINTS_WEIGHTS,
     COR_SEGM_WEIGHTS |-> w.COR_SEGM_WEIGHTS,
     NUM_PATCHES |-> NumPatches,
     SEMI_LOSS_NAME |-> name,
     SEMI_THRESHOLD |-> threshold,
     SEMI_UV_LOSS_CHANNELS |-> k]

\* a configuration the specification allows
ValidConfig(c) ==
    /\ c.SEMI_LOSS_NAME \in {"ce", "sce"}
    /\ c.SEMI_THRESHOLD >= 0 /\ c.SEMI_THRESHOLD <= 10

\* every configuration, the invalid ones too ("l1", thresholds -0.5 and 1.5)
CfgsMain ==
    {Config(UnitWeights, name, t, k) :
        name \in {"ce", "sce", "l1"}, t \in {-5, 0, 5, 10, 15}, k \in {1, 2}}

\* valid configurations, two weightings
CfgsValid ==
    {Config(w, name, t, k) :
        w \in {UnitWeights, MixedWeights}, name \in {"ce", "sce"},
        t \in {0, 5, 10}, k \in {1, 2}}

\* an annotated point: j_valid, the ground truth, and what
\* extract_at_points gives there for the base and the correction head
Point(valid, label, uv, fine, crt) ==
    [j_valid |-> valid, fine_segm_labels_gt |-> label,
     u_gt |-> uv[1], u_est |-> uv[2], v_gt |-> uv[3], v_est |-> uv[4],
     fine_segm_est |-> fine,
     u_crt_est |-> 1, v_crt_est |-> -1, fine_segm_crt_est |-> crt]

\* u_gt = 0.4, u_est = 0.5, v_gt = 0.6, v_est = 0.5
DefaultPt == Point(TRUE, 1, <<4, 5, 6, 5>>, <<0, 2, -1>>, <<0, 1, 0, 2>>)

\* a heatmap position: pos_index, the student's rows and the resampled
\* pseudo rows (all zero where the resampling pads)
Pixel(pos, fine, fine_p, u, u_p) ==
    [pos |-> pos, fine_segm |-> fine, fine_segm_p |-> fine_p,
     u |-> u, u_p |-> u_p, v |-> <<5, 0, 12>>, v_p |-> <<4, 3, 0>>]

\* the student's rows at a position: fine_segm logits, u, and the pseudo u
Students ==
    {<<(<<1, 0, -1>>), (<<5, 5, 5>>), (<<4, 5, 0>>)>>,
     <<(<<-2, -1, -3>>), (<<0, 9, 25>>), (<<10, 9, 3>>)>>}

DefaultPix == Pixel(TRUE, <<1, 0, -1>>, <<1, 6, 3>>, <<5, 5, 5>>, <<4, 5, 0>>)

NoPacked == [present |-> FALSE]

Packed(pts, pix, hf, hu, hv, coarse) ==
    [present |-> TRUE, pts |-> pts, pix |-> pix,
     has_fine_segm_p |-> hf, has_u_p |-> hu, has_v_p |-> hv,
     coarse_segm_loss |-> coarse]

Args(n, packed, corrections) ==
    [n_proposals |-> n, packed_annotations |-> packed, corrections |-> corrections]

\* which pseudo fields the packed annotations carry
Presences == {<<TRUE, TRUE, TRUE>>, <<FALSE, TRUE, TRUE>>,
              <<TRUE, FALSE, TRUE>>, <<TRUE, TRUE, FALSE>>}

\* the paths of __call__: no proposal, nothing packed, points of every kind
PtsKinds ==
    {Point(valid, label, <<4, 5, 6, 5>>, <<0, 2, -1>>, <<0, 1, 0, 2>>) :
        valid \in BOOLEAN, label \in {0, 1}}

ArgsPaths ==
    {Args(0, NoPacked, c) : c \in BOOLEAN}
    \cup {Args(1, NoPacked, c) : c \in BOOLEAN}
    \cup {Args(1, Packed(pts, <<DefaultPix>>, TRUE, TRUE, TRUE, 7), c) :
            pts \in SeqsUpTo(PtsKinds, 1, MaxPts), c \in BOOLEAN}

\* the paths of the pseudo-label loss: positions in and out of the
\* foreground, confidences 0 (padding), 0.6 and 1.0, fields present or not
PixKinds ==
    {Pixel(TRUE, <<1, 0, -1>>, fp, <<5, 5, 5>>, <<4, 5, 0>>) :
        fp \in {<<0, 0, 0>>, <<1, 6, 3>>, <<0, 0, 10>>}}
    \cup {Pixel(FALSE, <<1, 0, -1>>, <<1, 6, 3>>, <<5, 5, 5>>, <<4, 5, 0>>)}

ArgsPseudoPaths ==
    {Args(1, Packed(<<DefaultPt>>, pix, h[1], h[2], h[3], 7), c) :
        pix \in SeqsUpTo(PixKinds, 0, MaxPix), h \in Presences, c \in BOOLEAN}

ArgsMain == ArgsPaths \cup ArgsPseudoPaths

\* the numbers of the supervised losses: points in and out of the grid, of
\* the background and of two parts, residuals below and above 1, base
\* predictions that hit and miss the label
PtsSup ==
    {Point(valid, label, uv, e[1], e[2]) :
        valid \in BOOLEAN, label \in {0, 1, 2},
        uv \in {<<4, 5, 6, 5>>, <<0, 25, 9, -3>>},
        e \in {<<(<<0, 2, -1>>), (<<0, 1, 0, 2>>)>>,
               <<(<<3, 3, 0>>), (<<2, 0, -1, 0>>)>>}}

ArgsSup ==
    {Args(1, Packed(pts, <<DefaultPix>>, TRUE, TRUE, TRUE, 7), c) :
        pts \in SeqsUpTo(PtsSup, 1, MaxPts), c \in BOOLEAN}

CfgsSup ==
    {Config(w, "ce", 5, 1) : w \in {UnitWeights, MixedWeights}}

\* the numbers of the pseudo-label loss: student logits of both signs,
\* confidences 0 (padding), 0.5 (tied), 0.6 and 1.0
PixPseudo ==
    {Pixel(TRUE, st[1], fp, st[2], st[3]) :
        st \in Students,
        fp \in {<<0, 0, 0>>, <<1, 6, 3>>, <<0, 0, 10>>, <<5, 5, 0>>}}
    \cup {Pixel(FALSE, <<1, 0, -1>>, <<1, 6, 3>>, <<5, 5, 5>>, <<4, 5, 0>>)}

ArgsPseudo ==
    {Args(1, Packed(<<DefaultPt>>, pix, TRUE, TRUE, TRUE, 7), FALSE) :
        pix \in SeqsUpTo(PixPseudo, 0, MaxPix)}

----------------------------------------------------------------------------
(* The state machine: construction, calls, and the end of a training step *)

\* no call has been made on the object
NoFirst ==
    [set |-> FALSE, args |-> Args(0, NoPacked, FALSE), out |-> NoRet,
     others |-> FALSE]

\* the first call's inputs and outcome, and whether a call with other inputs
\* has followed it
Record(f, a, out) ==
    IF ~f.set THEN [set |-> TRUE, args |-> a, out |-> out, others |-> FALSE]
    ELSE [f EXCEPT !.others = f.others \/ a # f.args]

InitFrom(B, C, A) ==
    /\ build \in B
    /\ cfg \in C
    /\ args \in A
    /\ self = NoObject
    /\ ret = NoRet
    /\ invoked = <<>>
    /\ pc = "new"
    /\ first = NoFirst

Init == InitFrom(Builds, CfgsMain, ArgsMain)

\* DensePoseChartLoss(cfg)
Construct ==
    /\ pc = "new"
    /\ self' = InitObject(cfg)
    /\ pc' = "ready"
    /\ UNCHANGED <<build, cfg, args, ret, invoked, first>>

\* the object after a call: __call__ and the methods it calls read the
\* fields of self and assign none
AfterCall_Anneal(s) == [s EXCEPT !.pseudo_threshold = 10]

AfterCall(s) == s

\* loss(proposals_with_gt, densepose_predictor_outputs, corrections)
Call ==
    /\ pc = "ready"
    /\ LET r == CallResult(self, build, args)
       IN  /\ ret' = r.out
           /\ invoked' = r.steps
           /\ pc' = IF r.out.kind = "map" THEN "returned" ELSE "raised"
           /\ first' = Record(first, args, r.out)
    /\ self' = AfterCall(self)
    /\ UNCHANGED <<build, cfg, args>>

\* the trainer has consumed the LossMap; the call's locals are gone
Discard ==
    /\ pc = "returned"
    /\ ret' = NoRet
    /\ invoked' = <<>>
    /\ pc' = "ready"
    /\ UNCHANGED <<build, cfg, self, args, first>>

Next == Construct \/ Call \/ Discard

Spec == Init /\ [][Next]_vars

\* the supervised losses on their numbers
InitSup == InitFrom(Builds, CfgsSup, ArgsSup)
SpecSup == InitSup /\ [][Next]_vars

\* the pseudo-label loss on its numbers
InitPseudo == InitFrom(Builds, CfgsValid, ArgsPseudo)
SpecPseudo == InitPseudo /\ [][Next]_vars

\* the builds that evaluate `1 - mask`: what fails here fails whatever
\* torch does with the subtraction
BuildsArith == {b \in Builds : b.bool_sub = "int"}
InitArith == InitFrom(BuildsArith, CfgsMain, ArgsMain)
SpecArith == InitArith /\ [][Next]_vars

\* a sequence of calls on one object: the inputs of the next call are any of
\* ArgsCalls, after a call that returned and after one that raised (a caller
\* that catches the exception keeps the object)
PixCalls ==
    {Pixel(TRUE, <<1, 0, -1>>, <<1, 6, 3>>, <<5, 5, 5>>, <<4, 5, 0>>),
     Pixel(TRUE, <<-2, -1, -3>>, <<0, 0, 10>>, <<0, 9, 25>>, <<10, 9, 3>>)}

ArgsCalls ==
    {Args(0, NoPacked, FALSE), Args(1, NoPacked, FALSE)}
    \cup {Args(1, Packed(<<DefaultPt>>, pix, TRUE, TRUE, TRUE, 7), c) :
            pix \in SeqsUpTo(PixCalls, 1, MaxPix), c \in BOOLEAN}

NextInputs ==
    /\ pc \in {"returned", "raised"}
    /\ args' \in ArgsCalls
    /\ ret' = NoRet
    /\ invoked' = <<>>
    /\ pc' = "ready"
    /\ UNCHANGED <<build, cfg, self, first>>

NextCalls == Construct \/ Call \/ NextInputs

InitCalls == InitFrom(Builds, CfgsMain, ArgsCalls)
SpecCalls == InitCalls /\ [][NextCalls]_vars


----------------------------------------------------------------------------
(* What the claims speak of *)

Finished == pc \in {"returned", "raised"}

NoProposals == args.n_proposals = 0

NothingPacked == ~NoProposals /\ ~args.packed_annotations.present

\* some annotated point is inside its grid and of a part
HasValidFg ==
    /\ ~NoProposals
    /\ args.packed_annotations.present
    /\ \E i \in 1..Len(args.packed_annotations.pts) :
          /\ args.packed_annotations.pts[i].j_valid
          /\ args.packed_annotations.pts[i].fine_segm_labels_gt > 0

NoValidFg == ~NoProposals /\ ~NothingPacked /\ ~HasValidFg

AllPseudoFields ==
    /\ args.packed_annotations.has_fine_segm_p
    /\ args.packed_annotations.has_u_p
    /\ args.packed_annotations.has_v_p

\* the foreground positions of the heatmaps
FgPix ==
    {i \in 1..Len(args.packed_annotations.pix) : args.packed_annotations.pix[i].pos}

SupervisedKeys ==
    {"loss_densepose_U", "loss_densepose_V", "loss_densepose_I", "loss_densepose_S"}

PseudoKeys == {"loss_unsup_segm", "loss_u_p", "loss_v_p"}

CorrectionKeys == {"loss_correction_U", "loss_correction_V", "loss_correction_I"}

ExpectedKeys ==
    SupervisedKeys \cup PseudoKeys
        \cup (IF args.corrections THEN CorrectionKeys ELSE {})

AllZero(m, keys) == \A k \in keys : k \in DOMAIN m /\ m[k] = Val(0)

----------------------------------------------------------------------------
(* C1 *)

\* C1: with a valid configuration every call returns a LossMap, and its key
\* set is the seven base keys plus the three correction keys exactly when
\* corrections are given, whichever path the call takes.
C1_SameKeySet ==
    (Finished /\ ValidConfig(cfg)) =>
        (ret.kind = "map" /\ DOMAIN ret.m = ExpectedKeys)

----------------------------------------------------------------------------
(* C2 *)

\* C2: with no proposal, or nothing packed, or no annotated point that is
\* both in its grid and of a part, the call returns the fake LossMap (every
\* expected key, every value zero) and has invoked none of the coordinate,
\* segmentation and pseudo-label losses; the conditions are tested in this
\* order, packing before the interpolator.
C2_FakeWhenNoGroundTruth ==
    (Finished /\ (NoProposals \/ NothingPacked \/ NoValidFg)) =>
        /\ ret.kind = "map"
        /\ DOMAIN ret.m = ExpectedKeys
        /\ AllZero(ret.m, ExpectedKeys)
        /\ Range(invoked) \cap {"uv", "segm", "unsup"} = {}
        /\ invoked = IF NoProposals THEN <<"fake">>
                     ELSE IF NothingPacked THEN <<"pack", "fake">>
                     ELSE <<"pack", "interpolator", "fake">>

\* C2's case: annotated points reached the interpolator, some of them in
\* the grid, none of a part, and the fake map was returned.
C2_Witness ==
    /\ pc = "returned"
    /\ NoValidFg
    /\ \E i \in 1..Len(args.packed_annotations.pts) :
          args.packed_annotations.pts[i].j_valid
    /\ invoked = <<"pack", "interpolator", "fake">>
    /\ AllZero(ret.m, ExpectedKeys)


----------------------------------------------------------------------------
(* C3 *)

\* an input with ground truth at every level: a point of a part in its
\* grid, every pseudo field, a foreground position
NonDegenerate == HasValidFg /\ AllPseudoFields /\ FgPix # {}

----------------------------------------------------------------------------
(* C4 *)

\* the foreground positions in order, and the top-1 channels of a pseudo row
FgSeq ==
    Where([i \in 1..Len(args.packed_annotations.pix) |->
              args.packed_annotations.pix[i].pos])

FgRow(r) == args.packed_annotations.pix[FgSeq[r]]

Top1(row) == {c \in 0..(Len(row) - 1) : \A d \in 1..Len(row) : row[d] <= row[c + 1]}

\* a hard pseudo label for every foreground position
Top1Labellings ==
    {y \in [1..Len(FgSeq) -> 0..NumPatches] :
        \A r \in 1..Len(FgSeq) : y[r] \in Top1(FgRow(r).fine_segm_p)}

\* the unweighted mean, over every foreground position, of the
\* cross-entropy of the student's logits against the labelling
MeanCEOverForeground(y) ==
    Mean([r \in 1..Len(FgSeq) |-> CrossEntropy(FgRow(r).fine_segm, y[r])])

AllConfidencesBelowOne ==
    \A i \in FgPix : \A c \in 1..(NumPatches + 1) :
        args.packed_annotations.pix[i].fine_segm_p[c] < 10

\* C4 as stated: with pseudo_threshold = 1.0 and every foreground
\* confidence below 1, the three pseudo losses a call returns are the fake
\* zeros.
C4_ThresholdOneSelectsNone ==
    (/\ pc = "returned"
     /\ ValidConfig(cfg) /\ self.pseudo_threshold = 10
     /\ NonDegenerate /\ AllConfidencesBelowOne) =>
        AllZero(ret.m, PseudoKeys)

\* C4 amended: with pseudo_threshold = 1.0 the confidence gate is not
\* applied; a call that returns has kept every foreground position, and
\* loss_unsup_segm is w_p_segm times the mean cross-entropy over all of
\* them, whatever their confidences.
C4_ThresholdOneGatesNothing ==
    (/\ pc = "returned"
     /\ ValidConfig(cfg) /\ self.pseudo_threshold = 10
     /\ HasValidFg /\ AllPseudoFields) =>
        \E y \in Top1Labellings :
            ret.m["loss_unsup_segm"] = Times(MeanCEOverForeground(y), self.w_p_segm)

\* C4's case: threshold 1.0, every confidence below 1, and a real loss
C4_Witness ==
    /\ pc = "returned"
    /\ self.pseudo_threshold = 10
    /\ NonDegenerate /\ AllConfidencesBelowOne
    /\ Cardinality(FgPix) = 2
    /\ ~ret.m["loss_unsup_segm"].nan
    /\ ret.m["loss_unsup_segm"].v > 0

----------------------------------------------------------------------------
(* C5 *)

\* C5: when pos_index selects no position, the pseudo branch returns the
\* fake zeros for its three keys, for every threshold and both loss names.
C5_EmptyForegroundFallsBack ==
    (Finished /\ ValidConfig(cfg) /\ HasValidFg /\ FgPix = {}) =>
        (ret.kind = "map" /\ AllZero(ret.m, PseudoKeys))

----------------------------------------------------------------------------
(* C6 *)

\* the supervised and correction losses of the call, as computed
RealSupervised ==
    Merge(produce_densepose_losses_uv(self, args.packed_annotations,
                                      JValidFg(args.packed_annotations),
                                      args.corrections),
          produce_densepose_losses_segm(self, args.packed_annotations,
                                        JValidFg(args.packed_annotations),
                                        args.corrections))

\* C6: when a pseudo field is absent the call returns the fake zeros for
\* the three pseudo keys, and the supervised and correction losses of the
\* same call are the real ones.
C6_AbsentFieldFallsBack ==
    (Finished /\ ValidConfig(cfg) /\ HasValidFg /\ ~AllPseudoFields) =>
        /\ ret.kind = "map"
        /\ AllZero(ret.m, PseudoKeys)
        /\ \A k \in DOMAIN RealSupervised :
              k \in DOMAIN ret.m /\ ret.m[k] = RealSupervised[k]

----------------------------------------------------------------------------
(* C7 *)

\* C7: an invalid configuration fails at construction: no call returns a
\* LossMap from an object built with one.
C7_InvalidConfigRejected ==
    (self.constructed /\ pc = "returned") => ValidConfig(cfg)

----------------------------------------------------------------------------
(* C8 *)

\* C8: with loss_name = "ce" and pseudo_threshold = 0.0 no foreground
\* position is gated out, and loss_unsup_segm is w_p_segm times the
\* unweighted mean, over all foreground positions, of the cross-entropy
\* of the student's logits against the top-1 pseudo channel.
C8_PlainMeanCrossEntropy ==
    (/\ pc = "returned"
     /\ self.loss_name = "ce" /\ self.pseudo_threshold = 0
     /\ NonDegenerate) =>
        \E y \in Top1Labellings :
            ret.m["loss_unsup_segm"] = Times(MeanCEOverForeground(y), self.w_p_segm)

\* C8's case: two foreground positions, one of them padding (confidence 0)
C8_Witness ==
    /\ pc = "returned"
    /\ self.loss_name = "ce" /\ self.pseudo_threshold = 0
    /\ NonDegenerate
    /\ Cardinality(FgPix) = 2
    /\ \E i \in FgPix : MaxOf(args.packed_annotations.pix[i].fine_segm_p) = 0
    /\ \E i \in FgPix : MaxOf(args.packed_annotations.pix[i].fine_segm_p) > 0
    /\ ret.m["loss_unsup_segm"].v > 0

----------------------------------------------------------------------------
(* C9 *)

\* the annotated points inside their grid, in order
ValidSeq ==
    Where([i \in 1..Len(args.packed_annotations.pts) |->
              args.packed_annotations.pts[i].j_valid])

ValidPt(r) == args.packed_annotations.pts[ValidSeq[r]]

\* the base prediction's argmax (the first maximum) is the point's label
BaseAgrees(p) ==
    /\ \A c \in 1..Len(p.fine_segm_est) :
          p.fine_segm_est[c] <= p.fine_segm_est[p.fine_segm_labels_gt + 1]
    /\ \A c \in 1..p.fine_segm_labels_gt :
          p.fine_segm_est[c] < p.fine_segm_est[p.fine_segm_labels_gt + 1]

\* C9: with a correction head, a point in its grid whose base argmax is its
\* label has the abstain class n_channels as target and its cross-entropy
\* doubled, any other has its label as target at weight 1;
\* loss_correction_I is w_crt_segm times the mean of these over the points
\* in their grid.
C9_CorrectionTargetsAndWeights ==
    (pc = "returned" /\ args.corrections /\ HasValidFg) =>
        ret.m["loss_correction_I"] =
            Times(Mean([r \in 1..Len(ValidSeq) |->
                          IF BaseAgrees(ValidPt(r))
                          THEN 2 * CrossEntropy(ValidPt(r).fine_segm_crt_est,
                                                self.n_channels)
                          ELSE CrossEntropy(ValidPt(r).fine_segm_crt_est,
                                            ValidPt(r).fine_segm_labels_gt)]),
                  self.w_crt_segm)

\* C9's case: a point the base prediction gets right and one it gets wrong
C9_Witness ==
    /\ pc = "returned" /\ args.corrections /\ HasValidFg
    /\ \E r \in 1..Len(ValidSeq) : BaseAgrees(ValidPt(r))
    /\ \E r \in 1..Len(ValidSeq) : ~BaseAgrees(ValidPt(r))
    /\ ret.m["loss_correction_I"].v > 0

----------------------------------------------------------------------------
(* C10 *)

\* smooth L1 of a residual d in tenths, in units of 1/200
Huber(d) == IF d > -10 /\ d < 10 THEN d * d ELSE 20 * Abs(d) - 100

\* the annotated points in their grid and of a part, in order
FgPtSeq ==
    Where([i \in 1..Len(args.packed_annotations.pts) |->
              /\ args.packed_annotations.pts[i].j_valid
              /\ args.packed_annotations.pts[i].fine_segm_labels_gt > 0])

FgPt(r) == args.packed_annotations.pts[FgPtSeq[r]]

\* C10: loss_densepose_U is w_points times the sum (not the mean) of the
\* smooth L1 of u_est - u_gt over exactly the points in their grid and of a
\* part, and likewise loss_densepose_V; one point with u_est = 0.5 and
\* u_gt = 0.4 gives 0.005 * w_points.
C10_SmoothL1SumOverForeground ==
    (pc = "returned" /\ HasValidFg) =>
        /\ ret.m["loss_densepose_U"] =
              Val(self.w_points
                  * SumSeq([r \in 1..Len(FgPtSeq) |-> Huber(FgPt(r).u_est - FgPt(r).u_gt)]))
        /\ ret.m["loss_densepose_V"] =
              Val(self.w_points
                  * SumSeq([r \in 1..Len(FgPtSeq) |-> Huber(FgPt(r).v_est - FgPt(r).v_gt)]))
        /\ (Len(FgPtSeq) = 1 /\ FgPt(1).u_est = 5 /\ FgPt(1).u_gt = 4) =>
              ret.m["loss_densepose_U"] = Val(self.w_points)

\* C10's case: two points of a part in their grid, residuals 0.1 and 2.5,
\* and the sum of both as the loss
C10_Witness ==
    /\ pc = "returned" /\ HasValidFg
    /\ Len(args.packed_annotations.pts) = 2
    /\ Len(FgPtSeq) = 2
    /\ FgPt(1).u_est - FgPt(1).u_gt = 1
    /\ FgPt(2).u_est - FgPt(2).u_gt = 25
    /\ ret.m["loss_densepose_U"] = Val(self.w_points * 401)

----------------------------------------------------------------------------
(* C11 *)

----------------------------------------------------------------------------
(* C12 *)

\* a point in its grid whose ground-truth label is 0 (background)
ValidBackground(p) == p.j_valid /\ p.fine_segm_labels_gt = 0

\* the inputs of the call without the background points in their grid
WithoutValidBackground ==
    [args EXCEPT !.packed_annotations.pts =
        SelectSeq(args.packed_annotations.pts, LAMBDA p : ~ValidBackground(p))]

\* C12: loss_densepose_I is w_part times the mean cross-entropy over all the
\* points in their grid, those of label 0 (background) included, while
\* loss_densepose_U and loss_densepose_V are over the points in their grid
\* with label > 0 only: they are what the call returns for the same inputs
\* without the background points.
C12_FineLabelsCountBackground ==
    (pc = "returned" /\ HasValidFg) =>
        /\ ret.m["loss_densepose_I"] =
              Times(Mean([r \in 1..Len(ValidSeq) |->
                            CrossEntropy(ValidPt(r).fine_segm_est,
                                         ValidPt(r).fine_segm_labels_gt)]),
                    self.w_part)
        /\ LET other == CallResult(self, build, WithoutValidBackground).out
           IN  /\ other.kind = "map"
               /\ ret.m["loss_densepose_U"] = other.m["loss_densepose_U"]
               /\ ret.m["loss_densepose_V"] = other.m["loss_densepose_V"]

\* C12's case: a background point in its grid next to a point of a part;
\* it moves loss_densepose_I and leaves loss_densepose_U where it was
C12_Witness ==
    /\ pc = "returned" /\ HasValidFg
    /\ \E r \in 1..Len(ValidSeq) : ValidBackground(ValidPt(r))
    /\ LET other == CallResult(self, build, WithoutValidBackground).out
       IN  /\ ret.m["loss_densepose_I"] # other.m["loss_densepose_I"]
           /\ ret.m["loss_densepose_U"] = other.m["loss_densepose_U"]
           /\ ret.m["loss_densepose_U"].v > 0

----------------------------------------------------------------------------
(* C13 *)

\* mask_i in {0, 1}: the confidence gate at the r-th foreground position
Gate(r) == IF MaxOf(FgRow(r).fine_segm_p) >= self.pseudo_threshold THEN 1 ELSE 0

GateSum == SumSeq([r \in 1..Len(FgSeq) |-> Gate(r)])

\* ce_i: the cross-entropy of the student's logits against the label
CEAt(r, y) == CrossEntropy(FgRow(r).fine_segm, y[r])

\* the reverse cross-entropy at a position, in 1/1000 nat: -log(1e-4) = 9.21
\* times the logits of the channels that are not the label
RCEAt(r, y) ==
    9210 * (SumSeq(FgRow(r).fine_segm) - FgRow(r).fine_segm[y[r] + 1])

\* rce: the mean over the foreground positions of mask_i * rce_i
MeanGatedRCE(y) ==
    SumSeq([r \in 1..Len(FgSeq) |-> Gate(r) * RCEAt(r, y)]) \div Len(FgSeq)

\* sum_i weight_i * (ce_i * (1 - mask_i) + rce), weight_i = mask_i / sum(mask)
SymmetricCE(y) ==
    SumSeq([r \in 1..Len(FgSeq) |->
              Gate(r) * (CEAt(r, y) * (1 - Gate(r)) + MeanGatedRCE(y))])
        \div GateSum

----------------------------------------------------------------------------
(* C14 *)

\* the call reached the products with the mask: "sce" mode, the pseudo
\* fields present, some foreground position, and no fallback at line 464
ReachesMaskProducts ==
    /\ pc \in {"returned", "raised"}
    /\ self.loss_name = "sce"
    /\ NonDegenerate
    /\ RetainedPoints(self, args.packed_annotations) >= 1

\* C14: in "sce" mode, with a valid configuration, where the mask and the
\* weights made of it are multiplied with a per-point loss vector the mask is
\* defined and has one entry per element of the vector: as many as retained
\* points for the segmentation term, as many as uv_loss_channels times the
\* retained points for the U and V terms; no such product raises.
C14_MaskMatchesLossVectors ==
    (ReachesMaskProducts /\ ValidConfig(cfg)) =>
        LET mask == MaskEntries(self, args.packed_annotations)
        IN  /\ mask.defined
            /\ mask.entries = RetainedPoints(self, args.packed_annotations)
            /\ mask.entries = UVEntries(self, args.packed_annotations)
            /\ ret.err \notin {"TypeError: Tensor * None",
                               "RuntimeError: size mismatch"}

====
